---- MODULE Spec2Model ----
(***************************************************************************)
(* waSCC AWS Lambda runtime provider (provider/src/lib.rs, lambda.rs).     *)
(*                                                                         *)
(* The provider keeps a map `shutdown` (actor id -> flag) behind an RwLock.*)
(* handle_call starts (OP_BIND_ACTOR) or stops (OP_REMOVE_ACTOR) a poller. *)
(* start_polling spawns a thread; the thread itself inserts the actor's    *)
(* flag and then runs Poller::run.  stop_polling takes the write lock      *)
(* twice: once to set the flag, once to remove the entry.                  *)
(*                                                                         *)
(* configure_dispatch replaces the dispatcher under the write lock of a     *)
(* second RwLock; a poller calls the dispatcher under its read lock.       *)
(*                                                                         *)
(* Every lock acquisition is one atomic step.  A poller's cycle is split   *)
(* where it touches state other threads see: the shutdown check, the       *)
(* return of the blocking fetch (with the writes that follow it up to the  *)
(* first dispatch), the read lock of a dispatch, the return of the HTTP    *)
(* dispatch attempt, the return of the raw dispatch attempt.               *)
(*                                                                         *)
(* Spec        : the host delivers lifecycle calls one at a time (one host *)
(*               thread), pollers and spawned threads interleave freely    *)
(*               with the steps of a call.                                 *)
(* SpecConc    : lifecycle calls may also overlap (several host threads).  *)
(* SpecPoll    : one poller, every answer of the endpoint and the target.  *)
(* SpecDispatch: pollers dispatching while the dispatcher is replaced.     *)
(* SpecTrace   : pollers of several actors, events with trace ids.         *)
(* SpecStop    : overlapping lifecycle calls for one actor.                *)
(***************************************************************************)
EXTENDS Integers, Sequences, FiniteSets, TLC

\* ------------------------------------------------------------------ bounds
MaxThreads == 2     \* poller threads ever spawned
NumCallers == 2     \* host threads that may call handle_call (SpecConc)

Threads == 1..MaxThreads
Callers == 1..NumCallers
\* the host thread that delivers lifecycle calls under Spec
HostThread == CHOOSE c \in Callers : \A d \in Callers : c <= d

Tenants == {"actorA", "actorB"}

\* Option<String>::None for the two headers
NoId    == "no-request-id"
NoTrace == "no-trace-id"
RequestIds == {"r1", "r2"}
TraceIds   == {"x1", "x2"}

\* ------------------------------------------------------------ base64 crate
\* Text is a sequence of ASCII codes, bytes a sequence of 0..255.
Pad == 61

Sextet(ch) ==
    IF ch >= 65 /\ ch <= 90 THEN ch - 65
    ELSE IF ch >= 97 /\ ch <= 122 THEN ch - 71
    ELSE IF ch >= 48 /\ ch <= 57 THEN ch + 4
    ELSE IF ch = 43 THEN 62
    ELSE IF ch = 47 THEN 63
    ELSE -1

Base64Char(v) ==
    IF v < 26 THEN v + 65
    ELSE IF v < 52 THEN v + 71
    ELSE IF v < 62 THEN v - 4
    ELSE IF v = 62 THEN 43
    ELSE 47

RECURSIVE base64_encode(_)
base64_encode(bytes) ==
    IF Len(bytes) = 0 THEN <<>>
    ELSE IF Len(bytes) = 1 THEN
        << Base64Char(bytes[1] \div 4), Base64Char((bytes[1] % 4) * 16), Pad, Pad >>
    ELSE IF Len(bytes) = 2 THEN
        << Base64Char(bytes[1] \div 4),
           Base64Char((bytes[1] % 4) * 16 + bytes[2] \div 16),
           Base64Char((bytes[2] % 16) * 4), Pad >>
    ELSE
        << Base64Char(bytes[1] \div 4),
           Base64Char((bytes[1] % 4) * 16 + bytes[2] \div 16),
           Base64Char((bytes[2] % 16) * 4 + bytes[3] \div 64),
           Base64Char(bytes[3] % 64) >>
        \o base64_encode(SubSeq(bytes, 4, Len(bytes)))

\* One quantum of four characters; [ok, bytes].
DecodeQuantum(q, last) ==
    LET a == Sextet(q[1])
        b == Sextet(q[2])
        c == Sextet(q[3])
        d == Sextet(q[4])
    IN  IF a < 0 \/ b < 0 THEN [ok |-> FALSE, bytes |-> <<>>]
        ELSE IF q[3] = Pad /\ q[4] = Pad THEN
            IF last /\ b % 16 = 0
            THEN [ok |-> TRUE, bytes |-> << a * 4 + b \div 16 >>]
            ELSE [ok |-> FALSE, bytes |-> <<>>]
        ELSE IF c < 0 THEN [ok |-> FALSE, bytes |-> <<>>]
        ELSE IF q[4] = Pad THEN
            IF last /\ c % 4 = 0
            THEN [ok |-> TRUE,
                  bytes |-> << a * 4 + b \div 16, (b % 16) * 16 + c \div 4 >>]
            ELSE [ok |-> FALSE, bytes |-> <<>>]
        ELSE IF d < 0 THEN [ok |-> FALSE, bytes |-> <<>>]
        ELSE [ok |-> TRUE,
              bytes |-> << a * 4 + b \div 16, (b % 16) * 16 + c \div 4,
                           (c % 4) * 64 + d >>]

RECURSIVE base64_decode(_)
base64_decode(text) ==
    IF Len(text) = 0 THEN [ok |-> TRUE, bytes |-> <<>>]
    ELSE IF Len(text) < 4 THEN [ok |-> FALSE, bytes |-> <<>>]
    ELSE
        LET q    == DecodeQuantum(SubSeq(text, 1, 4), Len(text) = 4)
            rest == base64_decode(SubSeq(text, 5, Len(text)))
        IN  IF q.ok /\ rest.ok
            THEN [ok |-> TRUE, bytes |-> q.bytes \o rest.bytes]
            ELSE [ok |-> FALSE, bytes |-> <<>>]

\* ------------------------------------------------------- wire-level values
\* An Option<String> field that is None.
Absent == "absent"
OP_BIND_ACTOR      == "BindActor"
OP_REMOVE_ACTOR    == "RemoveActor"
OP_HANDLE_EVENT    == "HandleEvent"
OP_HANDLE_REQUEST  == "HandleRequest"

TextHi    == << 104, 105 >>          \* "hi"
TextB64Hi == << 97, 71, 107, 61 >>   \* "aGk="

\* Event bodies the endpoint can hand out.  `json` says whether
\* serde_json::from_slice::<AlbTargetGroupRequest> accepts the bytes; the
\* other fields are what the decoded request then holds.
OpaqueBody ==
    [json |-> FALSE, http_method |-> Absent, path |-> Absent,
     has_body |-> FALSE, body |-> <<>>, is_base64_encoded |-> FALSE]
AlbBody(m, p, hb, b, f) ==
    [json |-> TRUE, http_method |-> m, path |-> p,
     has_body |-> hb, body |-> b, is_base64_encoded |-> f]
Bodies ==
    { OpaqueBody,
      AlbBody("GET", "/x", FALSE, <<>>, FALSE),
      AlbBody(Absent, "/x", FALSE, <<>>, FALSE),
      AlbBody("GET", Absent, FALSE, <<>>, FALSE),
      AlbBody("GET", "/x", TRUE, TextB64Hi, TRUE),
      AlbBody("GET", "/x", TRUE, TextHi, TRUE),
      AlbBody("GET", "/x", TRUE, TextHi, FALSE) }

NoEvent == [body |-> OpaqueBody, request_id |-> NoId, trace_id |-> NoTrace,
            some |-> FALSE]
Events ==
    { [body |-> b, request_id |-> r, trace_id |-> x, some |-> TRUE] :
        b \in Bodies, r \in RequestIds \cup {NoId}, x \in TraceIds \cup {NoTrace} }

\* ------------------------------------------------ the endpoint's answers
\* HTTP status codes the endpoint may answer with.  599 stands for the codes
\* the http crate has no reason phrase for.
Statuses == {200, 202, 500, 599}
is_success(status) == status >= 200 /\ status <= 299
\* status.canonical_reason() is Some
HasCanonicalReason(status) == status \in {200, 202, 500}

\* The answer to GET .../runtime/invocation/next.  `sent`: send() returned a
\* response (otherwise the status is not looked at); `readable`: copy_to
\* and the headers' to_str succeed; `event`: body and the two headers.
FetchReplies ==
    { [sent |-> FALSE, status |-> 200, readable |-> FALSE, event |-> NoEvent] }
    \cup { [sent |-> TRUE, status |-> s, readable |-> FALSE, event |-> NoEvent] :
             s \in Statuses }
    \cup { [sent |-> TRUE, status |-> 200, readable |-> TRUE, event |-> e] :
             e \in Events }

\* RuntimeClient::next_invocation_event: Err, Ok(None), Ok(Some(event)), or a
\* panic of the calling thread in the info! line (lambda.rs 69).
next_invocation_event(reply) ==
    IF ~reply.sent THEN [kind |-> "Err", event |-> NoEvent]
    ELSE IF ~HasCanonicalReason(reply.status) THEN [kind |-> "Panic", event |-> NoEvent]
    ELSE IF ~is_success(reply.status) THEN [kind |-> "None", event |-> NoEvent]
    ELSE IF ~reply.readable THEN [kind |-> "Err", event |-> NoEvent]
    ELSE [kind |-> "Some", event |-> reply.event]

\* The answer to a POST .../response or .../error.
PostReplies ==
    { [sent |-> FALSE, status |-> 202] }
    \cup { [sent |-> TRUE, status |-> s] : s \in Statuses \ {200, 500} }
PostAccepted == { r \in PostReplies : r.sent /\ HasCanonicalReason(r.status) }

\* What the dispatch target returns for one call: Err(text), or Ok(bytes)
\* where the bytes decode as the response type of the operation or do not.
\* The target is whatever dispatcher the host has configured; which one it
\* is does not enter here.
FailTexts == {"guest-boom"}
TargetBodies == { <<>>, TextHi, << 255, 254, 253 >> }
TargetResults ==
    { [ok |-> FALSE, text |-> t, decodes |-> FALSE, body |-> <<>>] : t \in FailTexts }
    \cup { [ok |-> TRUE, text |-> "", decodes |-> FALSE, body |-> <<>>] }
    \cup { [ok |-> TRUE, text |-> "", decodes |-> TRUE, body |-> b] :
             b \in TargetBodies }

\* Box<dyn Dispatcher> values: the one the provider is built with and those
\* the host may install with configure_dispatch.
NullDispatcher == "NullDispatcher"
HostDispatchers == {"dispatcherA", "dispatcherB"}
\* a thread that holds no read guard of the dispatcher lock
NoTarget == "no-read-guard"

\* The error! lines of the poll loop (warn!, info! and debug! lines are not
\* recorded).
ErrorLines == {"error: fetch", "error: dispatch", "error: post"}

\* -------------------------------------------------------------- the state
VARIABLES
    shutdown,     \* provider.shutdown: actor id -> flag (the map's entries)
    dispatcher,   \* provider.dispatcher: the Box behind the RwLock
    reading,      \* spawned thread -> the dispatcher whose read guard it holds
    poisoned,     \* the RwLock of `shutdown` is poisoned
    trace_env,    \* process environment variable _X_AMZN_TRACE_ID
    hpc,          \* host thread -> where it is inside handle_call
    call,         \* host thread -> the call it is executing
    ret,          \* host thread -> outcome of its last finished call
    tpc,          \* spawned thread -> position
    module_id,    \* spawned thread -> actor id it polls for
    dispatched,   \* Poller.dispatched
    event,        \* the event of the current cycle
    calls,        \* what the current cycle did: dispatches and posts, in order
    dup,          \* the current event's id was in `dispatched` when fetched
    loglines,     \* error! lines of the current cycle
    fetched,      \* what the GET of the current cycle was answered with
    stopSeen      \* a stop of the thread's actor set the flag while it was
                  \* polling, and it has not passed an iteration boundary since

vars == << shutdown, poisoned, trace_env, hpc, call, ret, tpc, module_id,
           dispatched, event, calls, dup, stopSeen, dispatcher, reading, loglines,
           fetched >>
hostVars   == << hpc, call, ret >>
cycleVars  == << dispatched, event, calls, dup, trace_env, dispatcher, reading,
                 loglines, fetched >>
\* no GET answered yet in this cycle
NoReply == [some |-> FALSE, sent |-> FALSE, status |-> 200]
Answer(reply) == [some |-> TRUE, sent |-> reply.sent, status |-> reply.status]

NoCall == [actor |-> "", op |-> "", module |-> "", has_endpoint |-> FALSE]
NoRet  == [result |-> "none", logged |-> "", actor |-> "", op |-> ""]

\* thread positions inside Poller::run
InLoop == {"check", "fetch", "http", "raw"}
Polling(th) == tpc[th] \in InLoop

Init ==
    /\ shutdown = [t \in {} |-> FALSE]
    /\ poisoned = FALSE
    /\ trace_env = NoTrace
    /\ hpc = [c \in Callers |-> "idle"]
    /\ call = [c \in Callers |-> NoCall]
    /\ ret = [c \in Callers |-> NoRet]
    /\ tpc = [th \in Threads |-> "unused"]
    /\ module_id = [th \in Threads |-> ""]
    /\ dispatched = [th \in Threads |-> {}]
    /\ event = [th \in Threads |-> NoEvent]
    /\ calls = [th \in Threads |-> <<>>]
    /\ dup = [th \in Threads |-> FALSE]
    /\ stopSeen = [th \in Threads |-> FALSE]
    /\ dispatcher = NullDispatcher
    /\ reading = [th \in Threads |-> NoTarget]
    /\ loglines = [th \in Threads |-> {}]
    /\ fetched = [th \in Threads |-> NoReply]

\* ----------------------------------------------------- lifecycle: provider
Returns(c, r) ==
    /\ hpc' = [hpc EXCEPT ![c] = "idle"]
    /\ call' = [call EXCEPT ![c] = NoCall]
    /\ ret' = [ret EXCEPT ![c] = r]

\* `logged`: the actor named in the error! line of stop_polling, if any
Outcome(result, logged) ==
    [result |-> result, logged |-> logged, actor |-> "", op |-> ""]
\* an error handle_call returns itself, with the call it was given
Rejected(result, actor, op) ==
    [result |-> result, logged |-> "", actor |-> actor, op |-> op]

\* Threads spawned so far plus those the calls in progress will spawn; a
\* start that would exceed the bound is not delivered.
Spawning ==
    Cardinality({ th \in Threads : tpc[th] # "unused" })
    + Cardinality({ c \in Callers : hpc[c] = "start_polling" /\ call[c].has_endpoint })

\* the two arms of the match in handle_call that are not the `_` arm
Supported_AnyActor(op, actor) == op \in {OP_BIND_ACTOR, OP_REMOVE_ACTOR}
Supported(op, actor) ==
    op \in {OP_BIND_ACTOR, OP_REMOVE_ACTOR} /\ actor = "system"

\* handle_call: the match on (op, actor) and the decoding of the message.
handle_call(c, actor, op, decodable, module, has_endpoint, limit) ==
    /\ hpc[c] = "idle"
    /\ (op = OP_BIND_ACTOR /\ actor = "system" /\ decodable /\ has_endpoint)
          => Spawning < limit
    /\ IF ~Supported(op, actor)
       THEN /\ ret' = [ret EXCEPT ![c] = Rejected("Err_unsupported", actor, op)]
            /\ UNCHANGED << hpc, call >>
       ELSE IF ~decodable
       THEN /\ ret' = [ret EXCEPT ![c] = Rejected("Err_deserialize", actor, op)]
            /\ UNCHANGED << hpc, call >>
       ELSE /\ hpc' = [hpc EXCEPT ![c] =
                  IF op = OP_BIND_ACTOR THEN "start_polling" ELSE "stop_polling"]
            /\ call' = [call EXCEPT ![c] =
                  [actor |-> actor, op |-> op, module |-> module,
                   has_endpoint |-> has_endpoint]]
            /\ ret' = [ret EXCEPT ![c] = NoRet]
    /\ UNCHANGED << shutdown, poisoned, tpc, module_id, stopSeen, cycleVars >>

\* config.values.get("AWS_LAMBDA_RUNTIME_API") is Some
EndpointConfigured_Always(cfg) == TRUE
EndpointConfigured(cfg) == cfg.has_endpoint

FreeThreads == { th \in Threads : tpc[th] = "unused" }
NextThread == CHOOSE th \in FreeThreads : \A o \in FreeThreads : th <= o

\* start_polling: the configuration check, thread::spawn, Ok(()).
start_polling(c) ==
    /\ hpc[c] = "start_polling"
    /\ IF ~EndpointConfigured(call[c])
       THEN /\ Returns(c, Outcome("Err_config", ""))
            /\ UNCHANGED << tpc, module_id >>
       ELSE /\ FreeThreads # {}
            /\ tpc' = [tpc EXCEPT ![NextThread] = "spawned"]
            /\ module_id' = [module_id EXCEPT ![NextThread] = call[c].module]
            /\ Returns(c, Outcome("Ok", ""))
    /\ UNCHANGED << shutdown, poisoned, stopSeen, cycleVars >>

\* what stop_polling returns for an actor without an entry
StopUnknownResult_Err == "Err_unknown"
StopUnknownResult == "Ok"

\* stop_polling, first block: write lock, contains_key, set the flag.
stop_polling(c) ==
    /\ hpc[c] = "stop_polling"
    /\ IF poisoned
       THEN /\ Returns(c, Outcome("Panic", ""))
            /\ UNCHANGED << shutdown, stopSeen >>
       ELSE IF call[c].module \notin DOMAIN shutdown
       THEN /\ Returns(c, Outcome(StopUnknownResult, call[c].module))
            /\ UNCHANGED << shutdown, stopSeen >>
       ELSE /\ shutdown' = [shutdown EXCEPT ![call[c].module] = TRUE]
            /\ stopSeen' = [th \in Threads |->
                  stopSeen[th] \/ (Polling(th) /\ module_id[th] = call[c].module)]
            /\ hpc' = [hpc EXCEPT ![c] = "stop_remove"]
            /\ UNCHANGED << call, ret >>
    /\ UNCHANGED << poisoned, tpc, module_id, cycleVars >>

Without(m, k) == [x \in DOMAIN m \ {k} |-> m[x]]

\* stop_polling, second block: write lock, remove(module_id).unwrap().
stop_polling_remove(c) ==
    /\ hpc[c] = "stop_remove"
    /\ IF poisoned
       THEN /\ Returns(c, Outcome("Panic", ""))
            /\ UNCHANGED << shutdown, poisoned >>
       ELSE IF call[c].module \notin DOMAIN shutdown
       THEN /\ poisoned' = TRUE
            /\ Returns(c, Outcome("Panic", ""))
            /\ UNCHANGED shutdown
       ELSE /\ shutdown' = Without(shutdown, call[c].module)
            /\ Returns(c, Outcome("Ok", ""))
            /\ UNCHANGED poisoned
    /\ UNCHANGED << tpc, module_id, stopSeen, cycleVars >>

\* ------------------------------------------------ configure_dispatch
\* self.dispatcher.write() is granted when no thread holds a read guard.
WriteLockFree_Always == TRUE
WriteLockFree == \A th \in Threads : reading[th] = NoTarget

\* configure_dispatch: write lock, *lock = dispatcher, Ok(()).
configure_dispatch(d) ==
    /\ WriteLockFree
    /\ dispatcher' = d
    /\ UNCHANGED << shutdown, poisoned, trace_env, hpc, call, ret, tpc,
                    module_id, dispatched, event, calls, dup, stopSeen,
                    reading, loglines, fetched >>

\* ------------------------------------------------- the spawned thread
\* The closure of thread::spawn: insert the flag, Poller::new, enter run.
poller_thread(th) ==
    /\ tpc[th] = "spawned"
    /\ IF poisoned
       THEN /\ tpc' = [tpc EXCEPT ![th] = "panicked"]
            /\ module_id' = [module_id EXCEPT ![th] = ""]
            /\ UNCHANGED shutdown
       ELSE /\ shutdown' = (module_id[th] :> FALSE) @@ shutdown
            /\ tpc' = [tpc EXCEPT ![th] = "check"]
            /\ UNCHANGED module_id
    /\ UNCHANGED << poisoned, stopSeen, hostVars, cycleVars >>

\* Poller::shutdown as run uses it at the top of an iteration.
\* "panic": the lock is poisoned or the entry is gone; else the flag.
ShutdownRead(th) ==
    IF poisoned \/ module_id[th] \notin DOMAIN shutdown THEN "panic"
    ELSE IF shutdown[module_id[th]] THEN "break"
    ELSE "continue"

run_check(th) ==
    /\ tpc[th] = "check"
    /\ tpc' = [tpc EXCEPT ![th] =
          CASE ShutdownRead(th) = "panic" -> "panicked"
            [] ShutdownRead(th) = "break" -> "exited"
            [] OTHER -> "fetch"]
    /\ event' = [event EXCEPT ![th] = NoEvent]
    /\ calls' = [calls EXCEPT ![th] = <<>>]
    /\ dup' = [dup EXCEPT ![th] = FALSE]
    /\ loglines' = [loglines EXCEPT ![th] = {}]
    /\ fetched' = [fetched EXCEPT ![th] = NoReply]
    /\ stopSeen' = [stopSeen EXCEPT ![th] = FALSE]
    /\ dispatched' = [dispatched EXCEPT ![th] =
          IF ShutdownRead(th) = "continue" THEN @ ELSE {}]
    /\ module_id' = [module_id EXCEPT ![th] =
          IF ShutdownRead(th) = "continue" THEN @ ELSE ""]
    /\ UNCHANGED << shutdown, poisoned, hostVars, trace_env, dispatcher, reading >>


\* ------------------------------------------------ lambda.rs value types
\* InvocationResponse::new / InvocationError::new keep what they are given.
InvocationResponse_new_NoId(body, request_id) ==
    [body |-> body, request_id |-> NoId]
InvocationResponse_new(body, request_id) ==
    [body |-> body, request_id |-> request_id]

InvocationError_new(error, request_id) ==
    [error |-> error, request_id |-> request_id]

\* A Vec<u8> the poller passes on: plain bytes, or the JSON text of an
\* AlbTargetGroupResponse (kept as the value it encodes).
Bytes(b) == [json |-> FALSE, bytes |-> b, status_code |-> 0,
             is_base64_encoded |-> FALSE]
AlbResponseJson(status, b64body) ==
    [json |-> TRUE, bytes |-> b64body, status_code |-> status,
     is_base64_encoded |-> TRUE]
is_empty(v) == ~v.json /\ v.bytes = <<>>

\* One entry of a cycle's record.
NoResult == [ok |-> FALSE, text |-> "", decodes |-> FALSE, body |-> <<>>]
\* `target`: the dispatcher a dispatch ran against; `sent`: send() returned
\* a response to the post; `outcome` of a post: "Ok", "Err" or "Panic".
Dispatched(op, msg, tr) ==
    [call |-> "dispatch", op |-> op, request_id |-> "", data |-> msg,
     result |-> tr, target |-> NoTarget, sent |-> TRUE, outcome |-> "Ok"]
\* the dispatches of `inv`, made under the read guard of dispatcher d
Against(inv, d) == [i \in DOMAIN inv |-> [inv[i] EXCEPT !.target = d]]
\* RuntimeClient::send_invocation_response: POST .../{request_id}/response;
\* the info! line has unwrap_or("Unknown") for the reason phrase.
client_send_invocation_response_Unwrapped(resp, reply) ==
    [call |-> "post_response", op |-> "", request_id |-> resp.request_id,
     data |-> resp.body, result |-> NoResult, target |-> NoTarget,
     sent |-> reply.sent,
     outcome |-> IF reply.sent THEN "Ok" ELSE "Panic"]
client_send_invocation_response(resp, reply) ==
    [call |-> "post_response", op |-> "", request_id |-> resp.request_id,
     data |-> resp.body, result |-> NoResult, target |-> NoTarget,
     sent |-> reply.sent,
     outcome |-> IF reply.sent THEN "Ok" ELSE "Err"]
\* RuntimeClient::send_invocation_error: POST .../{request_id}/error; the
\* info! line unwraps the reason phrase (lambda.rs 110).
client_send_invocation_error(err, reply) ==
    [call |-> "post_error", op |-> "", request_id |-> err.request_id,
     data |-> err.error, result |-> NoResult, target |-> NoTarget,
     sent |-> reply.sent,
     outcome |-> IF ~reply.sent THEN "Err"
                 ELSE IF ~HasCanonicalReason(reply.status) THEN "Panic"
                 ELSE "Ok"]

\* Poller::send_invocation_response / send_invocation_error: build the value,
\* call the client, log a transport error and go on.
send_invocation_response(body, request_id, reply) ==
    << client_send_invocation_response(InvocationResponse_new(body, request_id), reply) >>
send_invocation_error(e, request_id, reply) ==
    << client_send_invocation_error(InvocationError_new(e, request_id), reply) >>

\* a call of the sequence panicked: the thread unwinds out of run
Panicked(made) == \E i \in 1..Len(made) : made[i].outcome = "Panic"
\* the error! line of send_invocation_response / send_invocation_error
PostLines(made) ==
    IF \E i \in 1..Len(made) : made[i].outcome = "Err" THEN {"error: post"} ELSE {}

\* ------------------------------------------------------ error messages
\* anyhow messages as the pieces that format! joins.
AlreadyDispatchedError(request_id) == << "Already dispatched: ", request_id >>
MissingMethod == << "Missing method in ALB request" >>
MissingPath   == << "Missing path in ALB request" >>
Base64Error   == << "base64 decode error" >>
GuestFailedRequest(text) == << "Guest failed to handle HTTP request: ", text >>
GuestFailedEvent_NoCause(text) == << "Guest failed to handle Lambda event" >>
GuestFailedEvent(text) == << "Guest failed to handle Lambda event: ", text >>
DeserializeFailed == << "Failed to deserialize HTTP response: ", "decode error" >>
NoError == << >>

Contains(msg, text) == \E i \in 1..Len(msg) : msg[i] = text

\* ------------------------------------------------------ dispatch (pure)
\* Each returns [ok, value, err, dispatched, invoked]: the Result, the
\* DispatchedSet afterwards and the calls made to the dispatch target.
\* `tr` is what the target answers if it is called.

\* wascc_codec deserialize of the target's reply
deserialize(tr) == [ok |-> tr.decodes, body |-> tr.body]

\* self.dispatched.insert(request_id.into())
dispatched_insert_Nothing(disp, request_id) == disp
dispatched_insert(disp, request_id) == disp \cup {request_id}

dispatch_http_request(request, request_id, disp, tr) ==
    LET inv == << Dispatched(OP_HANDLE_REQUEST, request, tr) >>
    IN  IF tr.ok
        THEN [ok |-> deserialize(tr).ok,
              value |-> deserialize(tr).body,
              err |-> IF deserialize(tr).ok THEN NoError ELSE DeserializeFailed,
              dispatched |-> dispatched_insert(disp, request_id),
              invoked |-> inv]
        ELSE [ok |-> FALSE, value |-> <<>>, err |-> GuestFailedRequest(tr.text),
              dispatched |-> disp, invoked |-> inv]

Failed(e, disp) ==
    [ok |-> FALSE, value |-> <<>>, err |-> e, dispatched |-> disp, invoked |-> <<>>]

\* the body handed to the target (lib.rs 346-350); [ok, bytes]
RequestBody_AsText(request) ==
    IF request.has_body THEN [ok |-> TRUE, bytes |-> request.body]
    ELSE [ok |-> TRUE, bytes |-> <<>>]
RequestBody(request) ==
    IF request.has_body /\ request.is_base64_encoded THEN base64_decode(request.body)
    ELSE IF request.has_body THEN [ok |-> TRUE, bytes |-> request.body]
    ELSE [ok |-> TRUE, bytes |-> <<>>]

dispatch_alb_http_request(request, request_id, disp, tr) ==
    IF request.http_method = Absent THEN Failed(MissingMethod, disp)
    ELSE IF request.path = Absent THEN Failed(MissingPath, disp)
    ELSE IF ~RequestBody(request).ok THEN Failed(Base64Error, disp)
    ELSE
        LET r == dispatch_http_request(
                    [method |-> request.http_method, path |-> request.path,
                     body |-> RequestBody(request).bytes],
                    request_id, disp, tr)
        IN  IF r.ok
            THEN [r EXCEPT !.value = AlbResponseJson(200, base64_encode(r.value))]
            ELSE [r EXCEPT !.value = Bytes(<<>>)]

\* serde_json::from_slice::<AlbTargetGroupRequest>(body)
from_slice(body) ==
    [ok |-> body.json,
     request |-> [http_method |-> body.http_method, path |-> body.path,
                  has_body |-> body.has_body, body |-> body.body,
                  is_base64_encoded |-> body.is_base64_encoded]]

try_dispatch_http_request(body, request_id, disp, tr) ==
    IF from_slice(body).ok
    THEN LET r == dispatch_alb_http_request(from_slice(body).request,
                                            request_id, disp, tr)
         IN  IF r.ok THEN r ELSE [r EXCEPT !.value = Bytes(<<>>)]
    ELSE [ok |-> TRUE, value |-> Bytes(<<>>), err |-> NoError,
          dispatched |-> disp, invoked |-> <<>>]

\* codec::Event { body: body.to_vec() }
Event_Altered(body) == [body |-> [body EXCEPT !.json = ~@]]
Event(body) == [body |-> body]

try_dispatch_lambda_event(body, request_id, disp, tr) ==
    LET inv == << Dispatched(OP_HANDLE_EVENT, Event(body), tr) >>
    IN  IF tr.ok
        THEN [ok |-> deserialize(tr).ok,
              value |-> Bytes(deserialize(tr).body),
              err |-> IF deserialize(tr).ok THEN NoError ELSE DeserializeFailed,
              dispatched |-> dispatched_insert(disp, request_id),
              invoked |-> inv]
        ELSE [ok |-> FALSE, value |-> Bytes(<<>>), err |-> GuestFailedEvent(tr.text),
              dispatched |-> disp, invoked |-> inv]

\* --------------------------------------------------------- Poller::run
\* event.request_id() is Some
HasRequestId_Always(ev) == TRUE
HasRequestId(ev) == ev.request_id # NoId

\* self.dispatched.contains(request_id) before the dispatch
AlreadyDispatched_Never(disp, request_id) == FALSE
AlreadyDispatched(disp, request_id) == request_id \in disp

\* the guard of the first Err arm: self.dispatched.contains(request_id)
\* after the HTTP attempt
AfterDispatch_Never(disp, request_id) == FALSE
AfterDispatch(disp, request_id) == request_id \in disp

\* try_dispatch_http_request on this body gets as far as the dispatcher
Invokes(body) ==
    try_dispatch_http_request(body, NoId, {}, NoResult).invoked # <<>>

\* The next thing the thread does is a dispatch call.
AtDispatch(th) ==
    \/ tpc[th] = "http" /\ Invokes(event[th].body)
    \/ tpc[th] = "raw"

\* self.dispatcher.read(): the thread takes the read guard for the call
\* (lib.rs 312, 379).  configure_dispatch holds the write lock for one step
\* only, so the read lock is always granted.
dispatcher_read(th) ==
    /\ AtDispatch(th)
    /\ reading[th] = NoTarget
    /\ reading' = [reading EXCEPT ![th] = dispatcher]
    /\ UNCHANGED << shutdown, poisoned, trace_env, hpc, call, ret, tpc,
                    module_id, dispatched, event, calls, dup, stopSeen,
                    dispatcher, loglines, fetched >>

\* A panic in one of the calls `made`, or before them (next = "panicked"),
\* unwinds the thread out of run and drops the Poller.
Unwinds(made, next) == Panicked(made) \/ next = "panicked"

\* The thread has made the calls `made`, logged `lines`, its DispatchedSet
\* is `disp` and it goes on at `next`, unless it unwinds.
Proceed(th, made, lines, disp, next) ==
    /\ calls' = [calls EXCEPT ![th] = @ \o made]
    /\ loglines' = [loglines EXCEPT ![th] = @ \cup lines \cup PostLines(made)]
    /\ tpc' = [tpc EXCEPT ![th] = IF Unwinds(made, next) THEN "panicked" ELSE next]
    /\ dispatched' = [dispatched EXCEPT ![th] = IF Unwinds(made, next) THEN {} ELSE disp]
    /\ module_id' = [module_id EXCEPT ![th] = IF Unwinds(made, next) THEN "" ELSE @]

\* run from the match on the fetch's result to the call of
\* try_dispatch_http_request (lib.rs 187-218).
Fetched(th, res, post) ==
    /\ event' = [event EXCEPT ![th] = res.event]
    /\ IF res.kind = "Panic"
       THEN /\ Proceed(th, <<>>, {}, {}, "panicked")
            /\ UNCHANGED << trace_env, dup >>
       ELSE IF res.kind # "Some" \/ ~HasRequestId(res.event)
       THEN /\ Proceed(th, <<>>,
                       IF res.kind = "Err" THEN {"error: fetch"} ELSE {},
                       dispatched[th], "check")
            /\ UNCHANGED << trace_env, dup >>
       ELSE /\ trace_env' = IF res.event.trace_id # NoTrace
                            THEN res.event.trace_id ELSE trace_env
            /\ dup' = [dup EXCEPT ![th] = res.event.request_id \in dispatched[th]]
            /\ Proceed(th,
                       IF AlreadyDispatched(dispatched[th], res.event.request_id)
                       THEN send_invocation_error(
                               AlreadyDispatchedError(res.event.request_id),
                               res.event.request_id, post)
                       ELSE <<>>,
                       {}, dispatched[th], "http")

\* The fetch returns; up to the call of try_dispatch_http_request.
run_next_event(th, reply, post) ==
    /\ tpc[th] = "fetch"
    /\ fetched' = [fetched EXCEPT ![th] = Answer(reply)]
    /\ Fetched(th, next_invocation_event(reply), post)
    /\ UNCHANGED << shutdown, poisoned, stopSeen, hostVars, dispatcher, reading >>

\* The match on r, the result of try_dispatch_http_request (lib.rs 221-240).
MatchHttp(th, r, request_id, post) ==
    IF r.ok /\ is_empty(r.value)
    THEN Proceed(th, Against(r.invoked, reading[th]), {}, r.dispatched, "raw")
    ELSE IF r.ok
    THEN Proceed(th, Against(r.invoked, reading[th])
                       \o send_invocation_response(r.value, request_id, post),
                 {}, r.dispatched, "check")
    ELSE IF AfterDispatch(r.dispatched, request_id)
    THEN Proceed(th, Against(r.invoked, reading[th])
                       \o send_invocation_error(r.err, request_id, post),
                 {"error: dispatch"}, r.dispatched, "check")
    ELSE Proceed(th, Against(r.invoked, reading[th]), {}, r.dispatched, "raw")

\* The dispatch of the HTTP attempt, if it makes one, returns (the read
\* guard is dropped) and run matches on the attempt's result.
run_try_http(th, tr, post) ==
    /\ tpc[th] = "http"
    /\ AtDispatch(th) => reading[th] # NoTarget
    /\ MatchHttp(th,
                 try_dispatch_http_request(event[th].body, event[th].request_id,
                                           dispatched[th], tr),
                 event[th].request_id, post)
    /\ reading' = [reading EXCEPT ![th] = NoTarget]
    /\ UNCHANGED << shutdown, poisoned, stopSeen, hostVars,
                    event, dup, trace_env, dispatcher, fetched >>

\* The match on r, the result of try_dispatch_lambda_event (lib.rs 242-248).
MatchRaw(th, r, request_id, post) ==
    IF r.ok
    THEN Proceed(th, Against(r.invoked, reading[th])
                       \o send_invocation_response(r.value, request_id, post),
                 {}, r.dispatched, "check")
    ELSE Proceed(th, Against(r.invoked, reading[th])
                       \o send_invocation_error(r.err, request_id, post),
                 {"error: dispatch"}, r.dispatched, "check")

\* The raw dispatch returns (the read guard is dropped) and run matches on
\* its result.
run_try_raw(th, tr, post) ==
    /\ tpc[th] = "raw"
    /\ reading[th] # NoTarget
    /\ MatchRaw(th,
                try_dispatch_lambda_event(event[th].body, event[th].request_id,
                                          dispatched[th], tr),
                event[th].request_id, post)
    /\ reading' = [reading EXCEPT ![th] = NoTarget]
    /\ UNCHANGED << shutdown, poisoned, stopSeen, hostVars,
                    event, dup, trace_env, dispatcher, fetched >>

\* ---------------------------------------------------- specifications
\* The calls the host may deliver: bind and remove from "system" with a
\* CapabilityConfiguration, the same with bytes that do not decode, and
\* calls handle_call does not support.
Messages(tenants) ==
    { [actor |-> "system", op |-> OP_BIND_ACTOR, decodable |-> TRUE,
       module |-> t, has_endpoint |-> e] : t \in tenants, e \in BOOLEAN }
    \cup { [actor |-> "system", op |-> OP_REMOVE_ACTOR, decodable |-> TRUE,
             module |-> t, has_endpoint |-> FALSE] : t \in tenants }
    \cup { [actor |-> "system", op |-> o, decodable |-> FALSE,
             module |-> "", has_endpoint |-> FALSE] :
               o \in {OP_BIND_ACTOR, OP_REMOVE_ACTOR} }
    \cup { [actor |-> a, op |-> o, decodable |-> TRUE,
             module |-> "", has_endpoint |-> FALSE] :
               a \in {"someActor"}, o \in {OP_BIND_ACTOR, OP_REMOVE_ACTOR} }
    \cup { [actor |-> "system", op |-> "OtherOp", decodable |-> TRUE,
             module |-> "", has_endpoint |-> FALSE] }

\* One lifecycle step of host thread c, for actors in `tenants` and at most
\* `limit` pollers.
Call(c, tenants, limit) ==
    \/ \E m \in Messages(tenants) :
            handle_call(c, m.actor, m.op, m.decodable, m.module, m.has_endpoint, limit)
    \/ start_polling(c)
    \/ stop_polling(c)
    \/ stop_polling_remove(c)

\* One step of spawned thread th; the endpoint answers a fetch from
\* `fetches` and accepts a post or not (`posts`), the dispatch target
\* answers from `targets`.
Thread(th, fetches, targets, posts) ==
    \/ poller_thread(th)
    \/ run_check(th)
    \/ dispatcher_read(th)
    \/ \E reply \in fetches, post \in posts : run_next_event(th, reply, post)
    \/ \E tr \in targets, post \in posts : run_try_http(th, tr, post)
    \/ \E tr \in targets, post \in posts : run_try_raw(th, tr, post)

\* Lifecycle: every actor, every thread; the endpoint hands out one kind
\* of event, the target reports a failure and the posts arrive.
FewEvents ==
    { e \in Events : /\ e.body = OpaqueBody
                     /\ e.request_id = "r1"
                     /\ e.trace_id = NoTrace }
FewFetchReplies ==
    { r \in FetchReplies : r.readable /\ r.event \in FewEvents }
FewTargetResults == { tr \in TargetResults : ~tr.ok }

Next ==
    \/ Call(HostThread, Tenants, MaxThreads)
    \/ \E th \in Threads : Thread(th, FewFetchReplies, FewTargetResults, PostAccepted)

Spec == Init /\ [][Next]_vars

\* The same with overlapping lifecycle calls.
NextConc ==
    \/ \E c \in Callers : Call(c, Tenants, MaxThreads)
    \/ \E th \in Threads : Thread(th, FewFetchReplies, FewTargetResults, PostAccepted)

SpecConc == Init /\ [][NextConc]_vars

\* One poller of one actor; every kind of event, of answer of the target
\* and of outcome of a post.
NextPoll ==
    \/ Call(HostThread, {"actorA"}, 1)
    \/ \E th \in Threads : Thread(th, FetchReplies, TargetResults, PostReplies)

SpecPoll == Init /\ [][NextPoll]_vars

\* Pollers of one actor that are started and never stopped, while the host
\* replaces the dispatcher; the events are requests, dispatched through the
\* HTTP-request operation and, when that fails, the raw-event operation.
DispatchEvents ==
    { e \in Events : /\ e.body = AlbBody("GET", "/x", FALSE, <<>>, FALSE)
                     /\ e.request_id = "r1"
                     /\ e.trace_id = NoTrace }
DispatchFetchReplies ==
    { r \in FetchReplies : r.readable /\ r.event \in DispatchEvents }
DispatchTargetResults ==
    { tr \in TargetResults : tr.ok => (tr.decodes /\ tr.body = TextHi) }

NextDispatch ==
    \/ handle_call(HostThread, "system", OP_BIND_ACTOR, TRUE, "actorA", TRUE, MaxThreads)
    \/ start_polling(HostThread)
    \/ \E d \in HostDispatchers : configure_dispatch(d)
    \/ \E th \in Threads :
            Thread(th, DispatchFetchReplies, DispatchTargetResults, PostAccepted)

SpecDispatch == Init /\ [][NextDispatch]_vars

\* Pollers of every actor that are started and never stopped; the events
\* are raw events that differ in their trace id.
TraceEvents ==
    { e \in Events : e.body = OpaqueBody /\ e.request_id = "r1" }
TraceFetchReplies ==
    { r \in FetchReplies : r.readable /\ r.event \in TraceEvents }

NextTrace ==
    \/ \E t \in Tenants :
            handle_call(HostThread, "system", OP_BIND_ACTOR, TRUE, t, TRUE, MaxThreads)
    \/ start_polling(HostThread)
    \/ \E th \in Threads :
            Thread(th, TraceFetchReplies, FewTargetResults, PostAccepted)

SpecTrace == Init /\ [][NextTrace]_vars

\* Overlapping lifecycle calls that all name one actor.
NextStop ==
    \/ \E c \in Callers : Call(c, {"actorA"}, MaxThreads)
    \/ \E th \in Threads : Thread(th, FewFetchReplies, FewTargetResults, PostAccepted)

SpecStop == Init /\ [][NextStop]_vars

\* ------------------------------------------------------------- claims
IsDispatch(e)     == e.call = "dispatch"
IsPostResponse(e) == e.call = "post_response"
IsPostError(e)    == e.call = "post_error"
\* the cycle of an event that has a request id is over
Completed(th) ==
    tpc[th] = "check" /\ event[th].some /\ event[th].request_id # NoId
FailedDispatch(th, i) == IsDispatch(calls[th][i]) /\ ~calls[th][i].result.ok
ErrorPostedAfter(th, i) ==
    \E j \in (i + 1)..Len(calls[th]) :
        /\ IsPostError(calls[th][j])
        /\ calls[th][j].request_id = event[th].request_id
        /\ Contains(calls[th][j].data, calls[th][i].result.text)

\* C1: an event without a request id leads to no post and no dispatch, and
\* the loop is back at the top of its next iteration.
C1_NoRequestIdIsSkipped ==
    \A th \in Threads :
        (event[th].some /\ event[th].request_id = NoId)
            => (calls[th] = <<>> /\ tpc[th] = "check")
C1_Witness ==
    \E th \in Threads :
        event[th].some /\ event[th].request_id = NoId /\ tpc[th] = "check"

\* C2 as stated: whenever the target reports a failure, on either operation,
\* the cycle posts an error with the event's request id and the target's text.
C2_TargetFailureIsPosted ==
    \A th \in Threads : Completed(th) =>
        \A i \in 1..Len(calls[th]) :
            FailedDispatch(th, i) => ErrorPostedAfter(th, i)
\* C2 amended: that holds for a failure on the raw-event operation, and for
\* a failure on the HTTP-request operation when the request id was already
\* in the DispatchedSet; otherwise the raw-event dispatch is tried next.
C2_RawTargetFailureIsPosted ==
    \A th \in Threads : Completed(th) =>
        \A i \in 1..Len(calls[th]) :
            (FailedDispatch(th, i)
               /\ (calls[th][i].op = OP_HANDLE_EVENT \/ dup[th]))
            => ErrorPostedAfter(th, i)
C2_Witness ==
    \E th \in Threads : Completed(th) /\
        \E i \in 1..Len(calls[th]) :
            /\ FailedDispatch(th, i)
            /\ calls[th][i].op = OP_HANDLE_EVENT
            /\ \E h \in 1..(i - 1) : FailedDispatch(th, h)

\* C3: a raw-event dispatch that the target answers with a decodable result
\* is followed by a response post with the event's request id and the
\* target's body, and by no error post.
C3_RawSuccessIsPosted ==
    \A th \in Threads : \A i \in 1..Len(calls[th]) :
        (/\ IsDispatch(calls[th][i])
         /\ calls[th][i].op = OP_HANDLE_EVENT
         /\ calls[th][i].result.ok /\ calls[th][i].result.decodes)
        => /\ \E j \in (i + 1)..Len(calls[th]) :
                /\ IsPostResponse(calls[th][j])
                /\ calls[th][j].request_id = event[th].request_id
                /\ calls[th][j].request_id \in RequestIds
                /\ calls[th][j].data = Bytes(calls[th][i].result.body)
           /\ \A k \in (i + 1)..Len(calls[th]) : ~IsPostError(calls[th][k])
C3_Witness ==
    \E th \in Threads : \E i \in 1..Len(calls[th]) :
        /\ IsDispatch(calls[th][i])
        /\ calls[th][i].op = OP_HANDLE_EVENT
        /\ calls[th][i].result.ok /\ calls[th][i].result.decodes
        /\ Completed(th)

\* C4: an event whose body decodes as a request without method or path is
\* handed to the target as a raw event with the original bytes, and no error
\* for the missing field is posted.
C4_MissingFieldFallsBack ==
    \A th \in Threads :
        (/\ Completed(th)
         /\ event[th].body.json
         /\ (event[th].body.http_method = Absent \/ event[th].body.path = Absent))
        => /\ \E i \in 1..Len(calls[th]) :
                /\ IsDispatch(calls[th][i])
                /\ calls[th][i].op = OP_HANDLE_EVENT
                /\ calls[th][i].data = [body |-> event[th].body]
           /\ \A j \in 1..Len(calls[th]) :
                IsPostError(calls[th][j])
                    => calls[th][j].data \notin {MissingMethod, MissingPath}

\* C5: for an event whose request id is already in the DispatchedSet the
\* first thing the cycle does is post an error for that id; the cycle then
\* goes on (it ends with more than that post) and the loop stays in run.
C5_DuplicateIsReportedAndLoopGoesOn ==
    \A th \in Threads : dup[th] =>
        /\ Len(calls[th]) >= 1
        /\ IsPostError(calls[th][1])
        /\ calls[th][1].request_id = event[th].request_id
        /\ calls[th][1].data = AlreadyDispatchedError(event[th].request_id)
        /\ tpc[th] \in {"http", "raw", "check"}
        /\ tpc[th] = "check" => Len(calls[th]) >= 2
C5_Witness ==
    \E th \in Threads :
        /\ dup[th] /\ tpc[th] = "check"
        /\ \E i \in 2..Len(calls[th]) : IsDispatch(calls[th][i])

C7_StartWithoutEndpointFails ==
    [][ \A c \in Callers :
          (/\ hpc[c] = "start_polling" /\ hpc'[c] # "start_polling"
           /\ ~call[c].has_endpoint)
          => /\ ret'[c].result = "Err_config"
             /\ tpc' = tpc /\ module_id' = module_id
             /\ shutdown' = shutdown
      ]_vars
C7_Witness ==
    \E c \in Callers : ret[c].result = "Err_config"

\* C8: a loop that was polling when a stop of its actor set the flag starts
\* no new fetch at the first iteration boundary after that: it ends there.
C8_StoppedLoopEndsAtBoundary ==
    [][ \A th \in Threads :
          (stopSeen[th] /\ tpc[th] = "check" /\ tpc'[th] # "check")
          => tpc'[th] \in {"exited", "panicked"}
      ]_vars

\* C9: when start returns Ok, the actor's entry is in the map.
C9_StartedActorIsRegistered ==
    [][ \A c \in Callers :
          (/\ hpc[c] = "start_polling" /\ hpc'[c] = "idle"
           /\ ret'[c].result = "Ok")
          => call[c].module \in DOMAIN shutdown'
      ]_vars

\* C10: an actor in the map has at most one polling loop; an actor not in
\* the map has no polling loop, or only loops whose stop is in progress.
LoopsOf(t) == { th \in Threads : Polling(th) /\ module_id[th] = t }
StopInProgress(t, th) ==
    \/ stopSeen[th]
    \/ \E c \in Callers : hpc[c] = "stop_remove" /\ call[c].module = t
C10_OneLoopPerActor ==
    \A t \in Tenants :
        /\ t \in DOMAIN shutdown => Cardinality(LoopsOf(t)) <= 1
        /\ t \notin DOMAIN shutdown =>
              \A th \in LoopsOf(t) : StopInProgress(t, th)

\* C11: when the GET of a cycle is answered with a non-success status, the
\* client returns no event and the loop invokes no target, posts nothing,
\* logs no error and is at the top of its next iteration.
AnsweredNonSuccess(th) ==
    fetched[th].some /\ fetched[th].sent /\ ~is_success(fetched[th].status)
C11_NonSuccessStatusIsNoEvent ==
    \A th \in Threads : AnsweredNonSuccess(th) =>
        /\ ~event[th].some
        /\ calls[th] = <<>>
        /\ loglines[th] = {}
        /\ tpc[th] = "check"

\* C12 as stated: a body that decodes as a request with method and path is
\* dispatched through the HTTP-request operation and, when the target
\* answers with a decodable result, a response is posted with the event's
\* request id and the raw-event operation is not used; a body that does not
\* decode is never dispatched through the HTTP-request operation and is
\* handed unchanged to the raw-event operation.
HttpShaped(th) ==
    /\ event[th].body.json
    /\ event[th].body.http_method # Absent
    /\ event[th].body.path # Absent
ViaHttp(e) == IsDispatch(e) /\ e.op = OP_HANDLE_REQUEST
ViaRaw(e)  == IsDispatch(e) /\ e.op = OP_HANDLE_EVENT
HttpPathTaken(th) ==
    /\ \E i \in 1..Len(calls[th]) : ViaHttp(calls[th][i])
    /\ \A i \in 1..Len(calls[th]) :
          (ViaHttp(calls[th][i]) /\ calls[th][i].result.ok
                                /\ calls[th][i].result.decodes)
          => /\ \E j \in (i + 1)..Len(calls[th]) :
                  /\ IsPostResponse(calls[th][j])
                  /\ calls[th][j].request_id = event[th].request_id
             /\ \A k \in 1..Len(calls[th]) : ~ViaRaw(calls[th][k])
RawPathTaken(th) ==
    /\ \A i \in 1..Len(calls[th]) : ~ViaHttp(calls[th][i])
    /\ \E i \in 1..Len(calls[th]) :
          ViaRaw(calls[th][i]) /\ calls[th][i].data.body = event[th].body
C12_ClassifiedByDecoding ==
    \A th \in Threads : Completed(th) =>
        /\ HttpShaped(th) => HttpPathTaken(th)
        /\ ~event[th].body.json => RawPathTaken(th)
\* C12 amended: the first half holds for requests whose body, when it is
\* flagged as base64, is valid base64; for the others base64::decode fails
\* before the target is called.
C12_ClassifiedByDecodingOfValidBody ==
    \A th \in Threads : Completed(th) =>
        /\ (HttpShaped(th) /\ RequestBody(from_slice(event[th].body).request).ok)
              => HttpPathTaken(th)
        /\ ~event[th].body.json => RawPathTaken(th)
\* a request with a base64 body went through the HTTP-request operation and
\* its response was posted
C12_Witness ==
    \E th \in Threads :
        /\ Completed(th) /\ HttpShaped(th)
        /\ event[th].body.is_base64_encoded /\ event[th].body.has_body
        /\ \E i \in 1..Len(calls[th]) :
              ViaHttp(calls[th][i]) /\ calls[th][i].result.decodes
        /\ \E j \in 1..Len(calls[th]) : IsPostResponse(calls[th][j])

\* C13: the body handed to the target through the HTTP-request operation is
\* the bytes that the inbound body is the base64 text of when the inbound
\* flag is set, the inbound text otherwise, and empty when there is no
\* inbound body; every response posted for a dispatch that the target
\* answered is the JSON of a response with the flag set whose body is base64
\* text that decodes to the body the target returned, whatever the inbound
\* flag was.
HandedBodyIsInbound(th, i) ==
    LET inbound == event[th].body
        handed  == calls[th][i].data.body
    IN  IF ~inbound.has_body THEN handed = <<>>
        ELSE IF inbound.is_base64_encoded
        THEN base64_encode(handed) = inbound.body
        ELSE handed = inbound.body
ResponseIsBase64(th, i, j) ==
    LET response == calls[th][j].data
    IN  /\ response.json
        /\ response.is_base64_encoded
        /\ response.bytes = base64_encode(calls[th][i].result.body)
        /\ base64_decode(response.bytes) =
              [ok |-> TRUE, bytes |-> calls[th][i].result.body]
C13_HttpBodiesAreConverted ==
    \A th \in Threads : \A i \in 1..Len(calls[th]) :
        ViaHttp(calls[th][i]) =>
            /\ HandedBodyIsInbound(th, i)
            /\ \A j \in (i + 1)..Len(calls[th]) :
                  (calls[th][i].result.ok /\ IsPostResponse(calls[th][j]))
                      => ResponseIsBase64(th, i, j)
\* a request whose body is base64 text was handed to the target decoded, and
\* the three bytes the target answered were posted as base64 text
C13_Witness ==
    \E th \in Threads : \E i \in 1..Len(calls[th]) :
        /\ ViaHttp(calls[th][i])
        /\ event[th].body.has_body /\ event[th].body.is_base64_encoded
        /\ calls[th][i].data.body = TextHi
        /\ Len(calls[th][i].result.body) = 3
        /\ \E j \in (i + 1)..Len(calls[th]) :
              IsPostResponse(calls[th][j]) /\ Len(calls[th][j].data.bytes) = 4

\* C14 as stated: in the cycle of an event the target is called at most
\* once, counting both operations.
DispatchesOf(th) == { i \in 1..Len(calls[th]) : IsDispatch(calls[th][i]) }
C14_TargetInvokedAtMostOnce ==
    \A th \in Threads : Cardinality(DispatchesOf(th)) <= 1
\* C14 amended: the target is called at most once through each operation; a
\* second call is made only through the raw-event operation and only after
\* the call through the HTTP-request operation reported a failure, so the
\* target reports success at most once in the cycle.
C14_TargetInvokedOncePerOperation ==
    \A th \in Threads :
        /\ \A i, j \in DispatchesOf(th) :
              calls[th][i].op = calls[th][j].op => i = j
        /\ \A i, j \in DispatchesOf(th) :
              i < j => /\ ViaHttp(calls[th][i]) /\ ~calls[th][i].result.ok
                       /\ ViaRaw(calls[th][j])
\* the target failed the HTTP-request call and then answered the raw-event
\* call of the same cycle
C14_Witness ==
    \E th \in Threads :
        /\ Completed(th)
        /\ \E i, j \in DispatchesOf(th) :
              i < j /\ ~calls[th][i].result.ok /\ calls[th][j].result.ok

\* C15: the cycle of an event with a request id attempts exactly one post,
\* a response or an error, and it carries the event's request id.
IsPost(e) == IsPostResponse(e) \/ IsPostError(e)
PostsOf(th) == { i \in 1..Len(calls[th]) : IsPost(calls[th][i]) }
C15_ExactlyOneOutcome ==
    \A th \in Threads :
        /\ Cardinality(PostsOf(th)) <= 1
        /\ Completed(th) => Cardinality(PostsOf(th)) = 1
        /\ \A i \in PostsOf(th) : calls[th][i].request_id = event[th].request_id

\* C16: a fetch that fails is followed by no dispatch and no post, and the
\* loop is at the top of its next iteration; a post that fails is not
\* repeated, a failed post of a dispatch's result ends the cycle, and after
\* a failed post the loop is still in run.
FailedPost(e) == IsPost(e) /\ ~e.sent
Given(c) == IF hpc'[c] # "idle" THEN call'[c] ELSE ret'[c]
handle_call_step(c) ==
    hpc[c] = "idle" /\ (hpc'[c] # "idle" \/ ret'[c] # ret[c])
C17_UnsupportedCallIsRejected ==
    [][ \A c \in Callers :
          (/\ handle_call_step(c)
           /\ ~(Given(c).op \in {OP_BIND_ACTOR, OP_REMOVE_ACTOR}
                 /\ Given(c).actor = "system"))
          => /\ hpc'[c] = "idle"
             /\ ret'[c].result = "Err_unsupported"
             /\ shutdown' = shutdown /\ poisoned' = poisoned
             /\ tpc' = tpc /\ module_id' = module_id
      ]_vars
\* a bind or remove from an actor other than "system" was rejected while a
\* loop was polling
C17_Witness ==
    \E c \in Callers, th \in Threads :
        /\ ret[c].result = "Err_unsupported"
        /\ ret[c].actor # "system"
        /\ ret[c].op \in {OP_BIND_ACTOR, OP_REMOVE_ACTOR}
        /\ Polling(th) /\ module_id[th] \in DOMAIN shutdown

\* C18: while a loop runs, a step adds to its DispatchedSet exactly the
\* request ids of the dispatches the target answered with success in that
\* step, whether or not the answer decodes, and removes nothing.  When the
\* target answered the HTTP-request dispatch and the answer does not decode,
\* the error is posted for the request id and the raw-event dispatch is not
\* tried; when the HTTP attempt of a request failed without an answer of the
\* target, for an id that was not in the set, the raw-event dispatch is made.
AnsweredIn(th, from) ==
    { event[th].request_id : i \in { k \in (from + 1)..Len(calls'[th]) :
          IsDispatch(calls'[th][k]) /\ calls'[th][k].result.ok } }
DecodeFailureIsPosted(th) ==
    \A i \in 1..Len(calls[th]) :
        (ViaHttp(calls[th][i]) /\ calls[th][i].result.ok
                              /\ ~calls[th][i].result.decodes)
        => /\ \E j \in (i + 1)..Len(calls[th]) :
                /\ IsPostError(calls[th][j])
                /\ calls[th][j].request_id = event[th].request_id
                /\ calls[th][j].data = DeserializeFailed
           /\ \A k \in 1..Len(calls[th]) : ~ViaRaw(calls[th][k])
EarlyFailureFallsBack(th) ==
    (/\ Completed(th) /\ ~dup[th] /\ event[th].body.json
     /\ \A i \in 1..Len(calls[th]) :
           ViaHttp(calls[th][i]) => ~calls[th][i].result.ok)
    => \E k \in 1..Len(calls[th]) : ViaRaw(calls[th][k])
C18_DispatchedSetTracksSuccess ==
    [][ \A th \in Threads :
          /\ (tpc[th] \in {"http", "raw"} /\ tpc'[th] \in InLoop)
                => dispatched'[th] = dispatched[th] \cup AnsweredIn(th, Len(calls[th]))
          /\ (Polling(th) /\ tpc'[th] \in InLoop /\ tpc[th] \notin {"http", "raw"})
                => dispatched'[th] = dispatched[th]
          /\ DecodeFailureIsPosted(th)'
          /\ EarlyFailureFallsBack(th)'
      ]_vars
\* the target answered the HTTP-request dispatch with bytes that do not
\* decode, the id is in the set and the error was posted
C18_Witness ==
    \E th \in Threads :
        /\ Completed(th) /\ ~dup[th]
        /\ event[th].request_id \in dispatched[th]
        /\ \E i \in 1..Len(calls[th]) :
              /\ ViaHttp(calls[th][i])
              /\ calls[th][i].result.ok /\ ~calls[th][i].result.decodes
        /\ IsPostError(calls[th][Len(calls[th])])

\* C19: in the cycle of an event whose request id was already in the
\* DispatchedSet when it was fetched, the target is not called.
C19_DuplicateIsNotDispatched ==
    \A th \in Threads : dup[th] => DispatchesOf(th) = {}

\* C20: while a thread is inside a dispatch call, holding the read guard it
\* took for the call, the provider's dispatcher is the one the call runs
\* against; and every dispatch that has returned ran against a dispatcher
\* that was installed.
C20_DispatchSeesOneTarget ==
    /\ \A th \in Threads :
          reading[th] # NoTarget =>
              /\ dispatcher = reading[th]
              /\ tpc[th] \in {"http", "raw"}
    /\ \A th \in Threads : \A i \in DispatchesOf(th) :
          calls[th][i].target \in HostDispatchers \cup {NullDispatcher}
\* two loops are inside dispatch calls against a dispatcher the host
\* installed, one of them in the second call of a cycle whose first call ran
\* against another dispatcher
C20_Witness ==
    \E th, other \in Threads :
        /\ th # other
        /\ reading[th] \in HostDispatchers /\ reading[other] = reading[th]
        /\ tpc[th] = "raw"
        /\ \E i \in DispatchesOf(th) : calls[th][i].target # reading[th]

\* C21: a stop does not cut a cycle short.  A loop that holds an event with
\* a request id, whose actor's flag a stop has set since the loop's last
\* iteration boundary, is out of the cycle (back at the boundary, or out of
\* run) only after it has invoked the target for the event and attempted a
\* post for the event's request id.
CycleOver(th) == tpc[th] \in {"check", "exited", "panicked"}
HoldsEvent(th) == event[th].some /\ event[th].request_id # NoId
C21_StopDoesNotInterruptCycle ==
    \A th \in Threads :
        (stopSeen[th] /\ HoldsEvent(th) /\ CycleOver(th)) =>
            /\ DispatchesOf(th) # {}
            /\ \E j \in PostsOf(th) :
                  calls[th][j].request_id = event[th].request_id

\* C22: while a loop handles an event that carries a trace id (from the
\* write of the environment variable to the end of the cycle), and so
\* whenever it is inside a call of the dispatch target for that event, the
\* environment variable _X_AMZN_TRACE_ID holds that trace id.
Handling(th) == tpc[th] \in {"http", "raw"}
C22_TraceIdHeldWhileHandling ==
    \A th \in Threads :
        (Handling(th) /\ event[th].trace_id # NoTrace)
            => trace_env = event[th].trace_id

\* C23: a step that removes an actor's entry from the map finds no loop of
\* that actor still in run, and a step in which a loop reads its flag at
\* the top of an iteration finds the entry of the loop's actor in the map.
RemovesEntry(t) == t \in DOMAIN shutdown /\ t \notin DOMAIN shutdown'
ReadsFlag(th) == tpc[th] = "check" /\ tpc'[th] # "check"
C23_EntryOutlivesLoop ==
    [][ /\ \A t \in Tenants : RemovesEntry(t) => LoopsOf(t) = {}
        /\ \A th \in Threads : ReadsFlag(th) => module_id[th] \in DOMAIN shutdown
      ]_vars

\* C24: every stop that has set the flag of its actor and performs its
\* removal, also while another stop of the same actor is in progress, finds
\* the entry in the map, returns Ok and leaves the lock of the map usable
\* (not poisoned).
PerformsRemoval(c) == hpc[c] = "stop_remove" /\ hpc'[c] = "idle"
C24_ConcurrentStopsSucceed ==
    [][ \A c \in Callers : PerformsRemoval(c) =>
            /\ call[c].module \in DOMAIN shutdown
            /\ ret'[c].result = "Ok"
            /\ ~poisoned'
      ]_vars

====
